---- MODULE Spec2Model ----
(***************************************************************************)
(* Model of the in-memory ordered index structures of                      *)
(* Data-Structures-Benchmark-Lab:                                          *)
(*   data_structures/binary_search_tree.py  (binarySearchTree, AVL)        *)
(*   data_structures/skip_list.py           (SkipList)                     *)
(*   data_structures/LAT.py                 (LAT, fixed-radix trie)        *)
(*   data_structures/radix_trie.py          (RadixTrie, adaptive trie)     *)
(*   data_structures/array.py               (Array, the sorted baseline)   *)
(* Each structure has its own variables and its own specification; in a    *)
(* structure's specification the other structures stay as constructed.     *)
(* One more specification constructs the structures from input lists.      *)
(***************************************************************************)
EXTENDS Integers, Sequences, FiniteSets, TLC

VARIABLES avlRoot, avlNodes, avlAdded, avlLast
VARIABLES skNodes, skLvl, skMaxLevels, skStored, skLast
VARIABLES latRoot, latRadix, latHeight, latAdded, latLast
VARIABLES rtRoot, rtRadix, rtAdded, rtLast
VARIABLES bKeys, bValues, bPc
VARIABLES arrKeys, arrValues, arrLast

avlVars == <<avlRoot, avlNodes, avlAdded, avlLast>>
skVars == <<skNodes, skLvl, skMaxLevels, skStored, skLast>>
latVars == <<latRoot, latRadix, latHeight, latAdded, latLast>>
rtVars == <<rtRoot, rtRadix, rtAdded, rtLast>>
buildVars == <<bKeys, bValues, bPc>>
arrVars == <<arrKeys, arrValues, arrLast>>

(***************************************************************************)
(* Bounds of the model.                                                    *)
(***************************************************************************)
\* binarySearchTree keys are drawn from 1..AvlMaxKey
AvlMaxKey == 6

\* SkipList keys are drawn from 1..SkMaxKey
SkMaxKey == 3
\* SkipList is constructed with max_levels in 1..SkMaxLevels
SkMaxLevels == 2

\* LAT keys are drawn from 0..LatMaxKey
LatMaxKey == 5
\* LAT is constructed with radix in 2..LatMaxRadix and height in 1..LatMaxHeight
LatMaxRadix == 3
LatMaxHeight == 2
\* RadixTrie keys are drawn from 0..RtMaxKey
RtMaxKey == 6
\* RadixTrie is constructed with radix in 2..RtMaxRadix
RtMaxRadix == 3
\* the constructors are given lists of up to BuildMaxLen keys drawn from
\* 1..BuildMaxKey
BuildMaxKey == 3
BuildMaxLen == 3
\* Array is constructed from lists of 1..ArrMaxLen keys drawn from
\* 1..ArrMaxKey; the keys given to its calls are drawn from 0..ArrMaxKey + 1
ArrMaxKey == 3
ArrMaxLen == 2

AvlKeys == 1..AvlMaxKey
SkKeys == 1..SkMaxKey
LatKeys == 0..LatMaxKey
RtKeys == 0..RtMaxKey
BuildKeys == 1..BuildMaxKey
ArrKeys == 1..ArrMaxKey
ArrArgs == 0..(ArrMaxKey + 1)

\* The payloads.  The structures store a payload, return it and
\* (skipNode.__eq__) compare it for equality; RadixTrie.__init__ also orders
\* the payloads of equal keys when it sorts its input.  Two distinct,
\* ordered payloads show every behaviour.
Values == {1, 2}

(***************************************************************************)
(* Python values an operation can return: None, a payload, a reference to  *)
(* a node object, or an exception that leaves the call.                    *)
(***************************************************************************)
None == 0
PyNone == [tag |-> "None", ref |-> 0]
PyValue(v) == [tag |-> "value", ref |-> v]
PyNode(n) == [tag |-> "node", ref |-> n]
PyRaise(e) == [tag |-> "raise", ref |-> e]
\* a key returned by getMinKey or getMaxKey
PyKey(k) == [tag |-> "key", ref |-> k]
\* a list returned by rangeQuery
PyList(l) == [tag |-> "list", ref |-> l]

Max2(a, b) == IF a >= b THEN a ELSE b
Min2(a, b) == IF a <= b THEN a ELSE b

\* min(S) and max(S) of a non-empty collection of numbers
SetMin(S) == CHOOSE x \in S : \A y \in S : x <= y
SetMax(S) == CHOOSE x \in S : \A y \in S : x >= y

RECURSIVE Power(_, _)
Power(b, e) == IF e = 0 THEN 1 ELSE b * Power(b, e - 1)

(***************************************************************************)
(* binarySearchTree.  avlNodes is the heap of bstNode objects, avlRoot is   *)
(* self.root.  A reference to a bstNode is the key the node was created    *)
(* with (add never assigns node.key and creates a node only after the      *)
(* descent found no node of that key); None is 0, which is no key.         *)
(***************************************************************************)
\* node_classes.py bstNode.__init__
bstNode(key, value) ==
  [key |-> key, value |-> value, left |-> None, right |-> None, height |-> 1]

\* __getHeight: [left_height, right_height] from the cached height fields
getHeight(h, node) ==
  << IF h[node].left # None THEN h[h[node].left].height ELSE 0,
     IF h[node].right # None THEN h[h[node].right].height ELSE 0 >>

\* 1 + max(self.__getHeight(node))
NewHeight(h, node) == 1 + Max2(getHeight(h, node)[1], getHeight(h, node)[2])

\* __getBalance
getBalance(h, node) == getHeight(h, node)[1] - getHeight(h, node)[2]

\* a rotation that forgets to recompute the height of the node moved down
rotateLeftStaleHeight(h, node) ==
  LET x == h[node].right
      y == h[x].left
      h1 == [h EXCEPT ![x].left = node, ![node].right = y]
      h3 == [h1 EXCEPT ![x].height = NewHeight(h1, x)]
  IN [heap |-> h3, ret |-> x]

\* __rotateLeft
rotateLeft(h, node) ==
  LET x == h[node].right
      y == h[x].left
      h1 == [h EXCEPT ![x].left = node, ![node].right = y]
      h2 == [h1 EXCEPT ![node].height = NewHeight(h1, node)]
      h3 == [h2 EXCEPT ![x].height = NewHeight(h2, x)]
  IN [heap |-> h3, ret |-> x]

\* a right rotation that drops the inner grandchild y instead of moving it
rotateRightDropsInner(h, node) ==
  LET x == h[node].left
      h1 == [h EXCEPT ![x].right = node, ![node].left = None]
      h2 == [h1 EXCEPT ![node].height = NewHeight(h1, node)]
      h3 == [h2 EXCEPT ![x].height = NewHeight(h2, x)]
  IN [heap |-> h3, ret |-> x]

\* __rotateRight
rotateRight(h, node) ==
  LET x == h[node].left
      y == h[x].right
      h1 == [h EXCEPT ![x].right = node, ![node].left = y]
      h2 == [h1 EXCEPT ![node].height = NewHeight(h1, node)]
      h3 == [h2 EXCEPT ![x].height = NewHeight(h2, x)]
  IN [heap |-> h3, ret |-> x]

\* the result of __rebalance, with the repair case it took: "LL" and "RR"
\* are the single rotations, "LR" and "RL" the double ones, "" is none
Repaired(r, case) == [heap |-> r.heap, ret |-> r.ret, case |-> case]

\* a rebalance that never rotates the child first: the Left-Right and the
\* Right-Left case get the single rotation of the Left-Left and Right-Right
rebalanceSingleOnly(h0, node) ==
  LET h == [h0 EXCEPT ![node].height = NewHeight(h0, node)]
      balance == getBalance(h, node)
  IN IF balance > 1
       THEN Repaired(rotateRight(h, node), "LL")
       ELSE IF balance < -1
              THEN Repaired(rotateLeft(h, node), "RR")
              ELSE [heap |-> h, ret |-> node, case |-> ""]

\* a rebalance that only repairs the left-heavy side
rebalanceLeftOnly(h0, node) ==
  LET h == [h0 EXCEPT ![node].height = NewHeight(h0, node)]
      balance == getBalance(h, node)
  IN IF balance > 1
       THEN IF getBalance(h, h[node].left) < 0
              THEN LET r == rotateLeft(h, h[node].left)
                   IN Repaired(rotateRight([r.heap EXCEPT ![node].left = r.ret],
                                           node), "LR")
              ELSE Repaired(rotateRight(h, node), "LL")
       ELSE [heap |-> h, ret |-> node, case |-> ""]

\* a rebalance that lets the two heights differ by 2 before it rotates
rebalanceSlack(h0, node) ==
  LET h == [h0 EXCEPT ![node].height = NewHeight(h0, node)]
      balance == getBalance(h, node)
  IN IF balance > 2
       THEN IF getBalance(h, h[node].left) < 0
              THEN LET r == rotateLeft(h, h[node].left)
                   IN Repaired(rotateRight([r.heap EXCEPT ![node].left = r.ret],
                                           node), "LR")
              ELSE Repaired(rotateRight(h, node), "LL")
       ELSE IF balance < -2
              THEN IF getBalance(h, h[node].right) > 0
                     THEN LET r == rotateRight(h, h[node].right)
                          IN Repaired(rotateLeft([r.heap EXCEPT ![node].right = r.ret],
                                                 node), "RL")
                     ELSE Repaired(rotateLeft(h, node), "RR")
              ELSE [heap |-> h, ret |-> node, case |-> ""]

\* __rebalance
rebalance(h0, node) ==
  LET h == [h0 EXCEPT ![node].height = NewHeight(h0, node)]
      balance == getBalance(h, node)
  IN IF balance > 1
       THEN IF getBalance(h, h[node].left) < 0
              THEN LET r == rotateLeft(h, h[node].left)
                   IN Repaired(rotateRight([r.heap EXCEPT ![node].left = r.ret],
                                           node), "LR")
              ELSE Repaired(rotateRight(h, node), "LL")
       ELSE IF balance < -1
              THEN IF getBalance(h, h[node].right) > 0
                     THEN LET r == rotateRight(h, h[node].right)
                          IN Repaired(rotateLeft([r.heap EXCEPT ![node].right = r.ret],
                                                 node), "RL")
                     ELSE Repaired(rotateLeft(h, node), "RR")
              ELSE [heap |-> h, ret |-> node, case |-> ""]

\* __step
step(h, key, node) ==
  IF h[node].key = key THEN node
  ELSE IF h[node].key > key THEN h[node].left
  ELSE h[node].right

\* add, lines 116-125: the descent; found is the early return on an equal key
RECURSIVE addDescend(_, _, _, _)
addDescend(h, node, key, traversed) ==
  IF node = None THEN [found |-> FALSE, traversed |-> traversed]
  ELSE IF key = h[node].key THEN [found |-> TRUE, traversed |-> traversed]
  ELSE addDescend(h, IF key < h[node].key THEN h[node].left ELSE h[node].right,
                  key, Append(traversed, node))

\* add, lines 136-154: rebalance while walking back up the traversed stack;
\* rot lists, bottom-up, the repair cases of the ancestors that rotated
RECURSIVE addWalkUp(_, _, _, _)
addWalkUp(h, root, traversed, rot) ==
  IF traversed = << >> THEN [heap |-> h, root |-> root, rot |-> rot]
  ELSE LET cur == traversed[Len(traversed)]
           rest == SubSeq(traversed, 1, Len(traversed) - 1)
           parent == IF rest # << >> THEN rest[Len(rest)] ELSE None
           was_left_of_parent == IF rest # << >> THEN h[parent].left = cur ELSE FALSE
           r == rebalance(h, cur)
           rot1 == IF r.case = "" THEN rot ELSE Append(rot, r.case)
       IN IF rest # << >>
            THEN addWalkUp(IF was_left_of_parent
                             THEN [r.heap EXCEPT ![parent].left = r.ret]
                             ELSE [r.heap EXCEPT ![parent].right = r.ret],
                           root, rest, rot1)
            ELSE addWalkUp(r.heap, r.ret, rest, rot1)

\* add, lines 127-133: the new bstNode, linked below the last node of the
\* descent or made the root
addLink(h, root, key, value, traversed) ==
  LET h1 == h @@ (key :> bstNode(key, value))
      parent == IF traversed # << >> THEN traversed[Len(traversed)] ELSE None
  IN [heap |-> IF parent = None THEN h1
               ELSE IF key < h1[parent].key
                      THEN [h1 EXCEPT ![parent].left = key]
                      ELSE [h1 EXCEPT ![parent].right = key],
      root |-> IF parent = None THEN key ELSE root]

\* an add that overwrites the stored value when the key is already present
addOverwrites(h, root, key, value) ==
  LET d == addDescend(h, root, key, << >>)
  IN IF d.found
       THEN [heap |-> [h EXCEPT ![key].value = value], root |-> root,
             dup |-> TRUE, rot |-> << >>]
       ELSE LET l == addLink(h, root, key, value, d.traversed)
                w == addWalkUp(l.heap, l.root, d.traversed, << >>)
            IN [heap |-> w.heap, root |-> w.root, dup |-> FALSE, rot |-> w.rot]

\* add: the heap and root after self.add(key, value); dup is the early return
add(h, root, key, value) ==
  LET d == addDescend(h, root, key, << >>)
  IN IF d.found
       THEN [heap |-> h, root |-> root, dup |-> TRUE, rot |-> << >>]
       ELSE LET l == addLink(h, root, key, value, d.traversed)
                w == addWalkUp(l.heap, l.root, d.traversed, << >>)
            IN [heap |-> w.heap, root |-> w.root, dup |-> FALSE, rot |-> w.rot]

\* search, lines 105-109: the loop from a node that is not None
RECURSIVE searchLoop(_, _, _)
searchLoop(h, node, key) ==
  IF h[node].key = key THEN PyNode(node)
  ELSE LET nxt == step(h, key, node)
       IN IF nxt = None THEN PyNone ELSE searchLoop(h, nxt, key)

\* search: node = self.root; node.key raises AttributeError when root is None
search(h, root, key) ==
  IF root = None THEN PyRaise("AttributeError") ELSE searchLoop(h, root, key)

\* a walk to the right that looks one node ahead only
avlMaxOneStep(h, node) ==
  IF node = None THEN PyRaise("AttributeError")
  ELSE IF h[node].right = None THEN PyKey(h[node].key)
       ELSE PyKey(h[h[node].right].key)

\* getMaxKey, lines 168-171: __max(node); node.right of None raises
RECURSIVE avlMax(_, _)
avlMax(h, node) ==
  IF node = None THEN PyRaise("AttributeError")
  ELSE IF h[node].right = None THEN PyKey(h[node].key)
       ELSE avlMax(h, h[node].right)

\* getMaxKey
avlGetMaxKey(h, root) == avlMax(h, root)

\* getMinKey, lines 175-178: __min(node)
RECURSIVE avlMin(_, _)
avlMin(h, node) ==
  IF node = None THEN PyRaise("AttributeError")
  ELSE IF h[node].left = None THEN PyKey(h[node].key)
       ELSE avlMin(h, h[node].left)

\* getMinKey
avlGetMinKey(h, root) == avlMin(h, root)

\* __init__ with empty keys and values: self.root = None
AvlInit ==
  /\ avlRoot = None
  /\ avlNodes = << >>
  /\ avlAdded = [k \in AvlKeys |-> None]
  /\ avlLast = [op |-> "init", rot |-> << >>]

\* one call self.add(key, value).  avlAdded remembers the first value given
\* for each key; avlLast tells what the call was, a new key ("new") or a
\* key already added ("dup"), and the repairs __rebalance made in it.
AvlAdd(key, value) ==
  LET r == add(avlNodes, avlRoot, key, value)
  IN /\ avlNodes' = r.heap
     /\ avlRoot' = r.root
     /\ avlAdded' = IF avlAdded[key] = None
                      THEN [avlAdded EXCEPT ![key] = value] ELSE avlAdded
     /\ avlLast' = [op |-> IF avlAdded[key] = None THEN "new" ELSE "dup",
                     rot |-> r.rot]
     /\ UNCHANGED <<skVars, latVars, rtVars, buildVars, arrVars>>

AvlNext == \E key \in AvlKeys, value \in Values : AvlAdd(key, value)

(***************************************************************************)
(* SkipList.  skNodes is the heap of skipNode objects: self.head at the    *)
(* reference head, and every node that can be reached from it at the       *)
(* reference of its key (add creates a node only when the level-0 chain    *)
(* holds no node of that key; a node that delete has unlinked everywhere   *)
(* is garbage and leaves the heap).  forward is 1-based here: Python's     *)
(* forward[i] is forward[i + 1].  skLvl is self.lvl.                       *)
(***************************************************************************)
head == -1
\* float('-inf'), the key of the head: below every key
NegInf == -1

\* node_classes.py skipNode.__init__
skipNode(key, value, levels) ==
  [key |-> key, value |-> value, forward |-> [i \in 1..levels |-> None]]

\* node_classes.py skipNode.__eq__: nodes are compared by their values
skipNodeEq(h, a, b) == h[a].value = h[b].value

\* _newNode
newNode(key, value, levels) == skipNode(key, value, levels + 1)

\* _randomLevel, where heads is the number of times in a row the random
\* source would answer random.random() < p from now on
RECURSIVE randomLevelLoop(_, _, _)
randomLevelLoop(heads, lvl, max_levels) ==
  IF heads > 0 /\ lvl < max_levels - 1
    THEN randomLevelLoop(heads - 1, lvl + 1, max_levels)
    ELSE lvl

\* a level drawn without the cap: one level for every heads
randomLevelUncapped(heads, max_levels) == heads

randomLevel(heads, max_levels) == randomLevelLoop(heads, 0, max_levels)

\* a walk that also steps onto the node of the searched key itself
RECURSIVE searchWalkLe(_, _, _, _)
searchWalkLe(h, curr, i, key) ==
  LET nxt == h[curr].forward[i + 1]
  IN IF nxt # None /\ h[nxt].key <= key THEN searchWalkLe(h, nxt, i, key) ELSE curr

\* _search_helper, line 60-61: the walk along level i from curr
RECURSIVE searchWalk(_, _, _, _)
searchWalk(h, curr, i, key) ==
  LET nxt == h[curr].forward[i + 1]
  IN IF nxt # None /\ h[nxt].key < key THEN searchWalk(h, nxt, i, key) ELSE curr

\* _search_helper, lines 59-62: the levels i, i-1, .., 0
RECURSIVE searchLevels(_, _, _, _, _)
searchLevels(h, curr, i, key, update) ==
  IF i < 0 THEN update
  ELSE LET c == searchWalk(h, curr, i, key)
       IN searchLevels(h, c, i - 1, key, [update EXCEPT ![i + 1] = c])

\* _search_helper: the update array (1-based)
search_helper(h, lvl, max_levels, key) ==
  searchLevels(h, head, lvl, key, [i \in 1..max_levels |-> head])

\* a splice that never sets the new node's own forward pointers
RECURSIVE addSpliceNoForward(_, _, _, _, _)
addSpliceNoForward(h, update, new_node, i, levels) ==
  IF i > levels THEN h
  ELSE addSpliceNoForward([h EXCEPT ![update[i + 1]].forward[i + 1] = new_node],
                          update, new_node, i + 1, levels)

\* add, lines 78-80: splice new_node into levels i..levels
RECURSIVE addSplice(_, _, _, _, _)
addSplice(h, update, new_node, i, levels) ==
  IF i > levels THEN h
  ELSE LET u == update[i + 1]
           h1 == [h EXCEPT ![new_node].forward[i + 1] = h[u].forward[i + 1]]
           h2 == [h1 EXCEPT ![u].forward[i + 1] = new_node]
       IN addSplice(h2, update, new_node, i + 1, levels)

\* an add that draws the level and raises self.lvl before it looks for the
\* key
skAddDrawsFirst(h, lvl, max_levels, key, value, heads) ==
  LET levels == randomLevel(heads, max_levels)
      update == search_helper(h, lvl, max_levels, key)
      nxt == h[update[1]].forward[1]
  IN IF nxt # None /\ h[nxt].key = key
       THEN [heap |-> h, lvl |-> Max2(lvl, levels), dup |-> TRUE, levels |-> 0,
             drew |-> TRUE]
       ELSE LET h1 == (key :> newNode(key, value, levels)) @@ h
            IN [heap |-> addSplice(h1, update, key, 0, levels),
                lvl |-> Max2(lvl, levels), dup |-> FALSE, levels |-> levels,
                drew |-> TRUE]

\* add: the heap and self.lvl after self.add(key, value); dup is the early
\* return, levels the level drawn for the new node, drew whether
\* _randomLevel was called
skAdd(h, lvl, max_levels, key, value, heads) ==
  LET update == search_helper(h, lvl, max_levels, key)
      nxt == h[update[1]].forward[1]
  IN IF nxt # None /\ h[nxt].key = key
       THEN [heap |-> h, lvl |-> lvl, dup |-> TRUE, levels |-> 0,
             drew |-> FALSE]
       ELSE LET levels == randomLevel(heads, max_levels)
                h1 == (key :> newNode(key, value, levels)) @@ h
            IN [heap |-> addSplice(h1, update, key, 0, levels),
                lvl |-> Max2(lvl, levels), dup |-> FALSE, levels |-> levels,
                drew |-> TRUE]

\* an unlink loop that stops after level 0
deleteLoopLevel0Only(h, update, old_node, i, lvl) ==
  [heap |-> [h EXCEPT ![update[1]].forward[1] = h[old_node].forward[1]],
   raised |-> FALSE]

\* delete, lines 93-98: the unlink loop from level i; old_node.forward[i]
\* raises IndexError when old_node has no level i
RECURSIVE deleteLoop(_, _, _, _, _)
deleteLoop(h, update, old_node, i, lvl) ==
  IF i > lvl THEN [heap |-> h, raised |-> FALSE]
  ELSE LET u == update[i + 1]
           nxt == h[u].forward[i + 1]
       IN IF nxt # None /\ skipNodeEq(h, nxt, old_node)
            THEN IF i + 1 > Len(h[old_node].forward)
                   THEN [heap |-> h, raised |-> TRUE]
                   ELSE deleteLoop([h EXCEPT ![u].forward[i + 1]
                                               = h[old_node].forward[i + 1]],
                                   update, old_node, i + 1, lvl)
            ELSE [heap |-> h, raised |-> FALSE]

\* the references that can be reached from the head
RECURSIVE Reachable(_, _)
Reachable(h, S) ==
  LET T == S \cup (UNION {{h[n].forward[i] : i \in 1..Len(h[n].forward)} :
                            n \in S} \ {None})
  IN IF T = S THEN S ELSE Reachable(h, T)

\* the heap without the nodes nothing refers to any more
Collect(h) == [n \in Reachable(h, {head}) |-> h[n]]

\* a delete that unlinks whatever node follows the predecessors, without
\* looking at its key
skDeleteNoKeyCheck(h, lvl, max_levels, key) ==
  LET update == search_helper(h, lvl, max_levels, key)
      old_node == h[update[1]].forward[1]
  IN IF old_node = None
       THEN [heap |-> h, absent |-> TRUE, raised |-> FALSE]
       ELSE LET r == deleteLoop(h, update, old_node, 0, lvl)
            IN [heap |-> Collect(r.heap), absent |-> FALSE, raised |-> r.raised]

\* delete: the heap after self.delete(key); absent is the early return,
\* raised an IndexError that left the call
skDelete(h, lvl, max_levels, key) ==
  LET update == search_helper(h, lvl, max_levels, key)
      old_node == h[update[1]].forward[1]
  IN IF old_node = None \/ h[old_node].key # key
       THEN [heap |-> h, absent |-> TRUE, raised |-> FALSE]
       ELSE LET r == deleteLoop(h, update, old_node, 0, lvl)
            IN [heap |-> Collect(r.heap), absent |-> FALSE, raised |-> r.raised]

\* search
skSearch(h, lvl, max_levels, key) ==
  LET res == search_helper(h, lvl, max_levels, key)
      targ == h[res[1]].forward[1]
  IN IF targ # None /\ h[targ].key = key THEN PyValue(h[targ].value) ELSE PyNone

\* a walk along the top level only
RECURSIVE skMaxTopLevelOnly(_, _, _)
skMaxTopLevelOnly(h, curr, lvl) ==
  IF h[curr].forward[lvl + 1] # None
    THEN skMaxTopLevelOnly(h, h[curr].forward[lvl + 1], lvl)
    ELSE PyKey(h[curr].key)

\* getMaxKey, lines 111-116: the loop from node curr at level lvl
RECURSIVE skMaxLoop(_, _, _)
skMaxLoop(h, curr, lvl) ==
  IF lvl >= 0
    THEN IF h[curr].forward[lvl + 1] # None
           THEN skMaxLoop(h, h[curr].forward[lvl + 1], lvl)
           ELSE skMaxLoop(h, curr, lvl - 1)
    ELSE PyKey(h[curr].key)

\* getMaxKey: on an empty list the key of the head, -inf
skGetMaxKey(h, lvl) == skMaxLoop(h, head, lvl)

\* getMinKey: .key of None raises on an empty list
skGetMinKey(h) ==
  IF h[head].forward[1] = None THEN PyRaise("AttributeError")
  ELSE PyKey(h[h[head].forward[1]].key)

\* __init__ with empty keys and values and the given max_levels
SkInit(max_levels) ==
  /\ skMaxLevels = max_levels
  /\ skNodes = (head :> skipNode(NegInf, None, max_levels))
  /\ skLvl = 0
  /\ skStored = [k \in SkKeys |-> None]
  /\ skLast = [op |-> "init", raised |-> FALSE, grew |-> FALSE, drew |-> FALSE]

\* one call self.add(key, value) in which the random source gives heads
\* heads in a row.  skStored maps the keys added and not deleted since to
\* the value they were added with; skLast tells what the call was ("add" of
\* a new key or "addDup"), whether the new node's level exceeded self.lvl
\* and whether the call drew a random level.
SkAdd(key, value, heads) ==
  LET r == skAdd(skNodes, skLvl, skMaxLevels, key, value, heads)
  IN /\ skNodes' = r.heap
     /\ skLvl' = r.lvl
     /\ skStored' = IF skStored[key] = None
                      THEN [skStored EXCEPT ![key] = value] ELSE skStored
     /\ skLast' = [op |-> IF skStored[key] = None THEN "add" ELSE "addDup",
                   raised |-> FALSE,
                   grew |-> ~r.dup /\ r.levels > skLvl,
                   drew |-> r.drew]
     /\ UNCHANGED <<skMaxLevels, avlVars, latVars, rtVars, buildVars, arrVars>>

\* one call self.delete(key); skLast tells whether the key was stored
\* ("delete") or not ("deleteAbsent") and whether the call raised
SkDelete(key) ==
  LET r == skDelete(skNodes, skLvl, skMaxLevels, key)
  IN /\ skNodes' = r.heap
     /\ skStored' = [skStored EXCEPT ![key] = None]
     /\ skLast' = [op |-> IF skStored[key] = None THEN "deleteAbsent" ELSE "delete",
                   raised |-> r.raised, grew |-> FALSE, drew |-> FALSE]
     /\ UNCHANGED <<skLvl, skMaxLevels, avlVars, latVars, rtVars, buildVars, arrVars>>

SkNext ==
  \/ \E key \in SkKeys, value \in Values, heads \in 0..skMaxLevels :
       SkAdd(key, value, heads)
  \/ \E key \in SkKeys : SkDelete(key)

(***************************************************************************)
(* LAT.  A node is a value that holds its children: an IndexNode holds the *)
(* nodes of its pointers dict, a LATLeafNode its data dict (add creates    *)
(* every node in place and no node is referred to twice).  A dict is a     *)
(* function on its keys.  latRoot is self.root.                            *)
(***************************************************************************)
EmptyDict == << >>

\* an IndexNode that takes level 0 whatever its depth
IndexNodeLevelZero(radix, height, current_level) ==
  [kind |-> "IndexNode", pointers |-> EmptyDict, radix |-> radix,
   height |-> height, level |-> 0]

\* node_classes.py IndexNode.__init__
IndexNode(radix, height, current_level) ==
  [kind |-> "IndexNode", pointers |-> EmptyDict, radix |-> radix,
   height |-> height, level |-> current_level]

\* node_classes.py LATLeafNode.__init__
LATLeafNode == [kind |-> "LATLeafNode", data |-> EmptyDict]

\* d[k] = v on a dict
DictSet(d, k, v) == (k :> v) @@ d

\* a leaf add that replaces the whole dict by the one entry
leafAddReplaces(leaf, key, value) == [leaf EXCEPT !.data = (key :> value)]

\* a leaf add that keeps the value a key already has
leafAddKeepsFirst(leaf, key, value) ==
  IF key \in DOMAIN leaf.data THEN leaf
  ELSE [leaf EXCEPT !.data = DictSet(leaf.data, key, value)]

\* node_classes.py LATLeafNode.add
leafAdd(leaf, key, value) == [leaf EXCEPT !.data = DictSet(leaf.data, key, value)]

\* key_conversion, lines 46-48: n more digits pushed on the stack
RECURSIVE keyConversionLoop(_, _, _, _)
keyConversionLoop(key, radix, n, stack) ==
  IF n = 0 THEN stack
  ELSE keyConversionLoop(key \div radix, radix, n - 1, Append(stack, key % radix))

Reverse(stack) == [i \in 1..Len(stack) |-> stack[Len(stack) + 1 - i]]

\* a conversion that leaves the digits as pushed, least significant first
key_conversionLeastFirst(key, radix, height) ==
  keyConversionLoop(key, radix, height, << >>)

\* key_conversion: height digits, most significant first
key_conversion(key, radix, height) ==
  Reverse(keyConversionLoop(key, radix, height, << >>))

\* add, lines 55-64: the loop from the node reached at level (0-based), as
\* the node it leaves behind
RECURSIVE latAddFrom(_, _, _, _, _, _, _)
latAddFrom(node, path, level, radix, height, key, value) ==
  LET digit == path[level + 1]
  IN IF level = height - 1
       THEN LET leaf == IF digit \notin DOMAIN node.pointers
                          THEN LATLeafNode ELSE node.pointers[digit]
            IN [node EXCEPT !.pointers
                  = DictSet(node.pointers, digit, leafAdd(leaf, key, value))]
       ELSE LET child == IF digit \notin DOMAIN node.pointers
                           THEN IndexNode(radix, height, level + 1)
                           ELSE node.pointers[digit]
            IN [node EXCEPT !.pointers
                  = DictSet(node.pointers, digit,
                            latAddFrom(child, path, level + 1, radix, height,
                                       key, value))]

\* add: self.root after self.add(key, value)
latAdd(root, radix, height, key, value) ==
  latAddFrom(root, key_conversion(key, radix, height), 0, radix, height, key, value)

\* search, lines 70-77: the loop from the node reached after i digits
RECURSIVE latSearchFrom(_, _, _, _)
latSearchFrom(node, path, i, key) ==
  IF i = Len(path)
    THEN IF node.kind = "LATLeafNode"
           THEN IF key \in DOMAIN node.data THEN PyValue(node.data[key]) ELSE PyNone
           ELSE PyNone
    ELSE IF path[i + 1] \notin DOMAIN node.pointers THEN PyNone
         ELSE latSearchFrom(node.pointers[path[i + 1]], path, i + 1, key)

\* search
latSearch(root, radix, height, key) ==
  latSearchFrom(root, key_conversion(key, radix, height), 0, key)

\* getMinKey, lines 94-97: the descent from node curr; min() of an empty
\* dict's keys raises ValueError
RECURSIVE latMinFrom(_)
latMinFrom(curr) ==
  IF curr.kind # "LATLeafNode"
    THEN IF DOMAIN curr.pointers = {} THEN PyRaise("ValueError")
         ELSE latMinFrom(curr.pointers[SetMin(DOMAIN curr.pointers)])
    ELSE IF DOMAIN curr.data = {} THEN PyRaise("ValueError")
         ELSE PyKey(SetMin(DOMAIN curr.data))

\* getMinKey
latGetMinKey(root) == latMinFrom(root)

\* getMaxKey, lines 101-104: the descent from node curr
RECURSIVE latMaxFrom(_)
latMaxFrom(curr) ==
  IF curr.kind # "LATLeafNode"
    THEN IF DOMAIN curr.pointers = {} THEN PyRaise("ValueError")
         ELSE latMaxFrom(curr.pointers[SetMax(DOMAIN curr.pointers)])
    ELSE IF DOMAIN curr.data = {} THEN PyRaise("ValueError")
         ELSE PyKey(SetMax(DOMAIN curr.data))

\* getMaxKey
latGetMaxKey(root) == latMaxFrom(root)

\* __init__ with empty keys and values and the given radix and height
LatInit(radix, height) ==
  /\ latRadix = radix
  /\ latHeight = height
  /\ latRoot = IndexNode(radix, height, 0)
  /\ latAdded = [k \in LatKeys |-> None]
  /\ latLast = "init"

\* one call self.add(key, value).  latAdded remembers the last value given
\* for each key; latLast tells whether the key was new ("add") or had been
\* added before ("addDup").
LatAdd(key, value) ==
  /\ latRoot' = latAdd(latRoot, latRadix, latHeight, key, value)
  /\ latAdded' = [latAdded EXCEPT ![key] = value]
  /\ latLast' = IF latAdded[key] = None THEN "add" ELSE "addDup"
  /\ UNCHANGED <<latRadix, latHeight, avlVars, skVars, rtVars, buildVars, arrVars>>

LatNext == \E key \in LatKeys, value \in Values : LatAdd(key, value)

(***************************************************************************)
(* RadixTrie.  A RadixTrieNode is a value that holds the nodes of its      *)
(* children dict; rtRoot is self.root.                                     *)
(***************************************************************************)
\* node_classes.py RadixTrieNode.__init__
RadixTrieNode(key) == [key |-> key, value |-> None, children |-> EmptyDict]

\* a decomposition that stops one digit early, at key < radix
RECURSIVE breakKeyStopsEarly(_, _, _)
breakKeyStopsEarly(key, radix, stack) ==
  IF key >= radix
    THEN breakKeyStopsEarly(key \div radix, radix, Append(stack, key % radix))
    ELSE stack

\* _break_key, lines 28-30: the loop
RECURSIVE breakKeyLoop(_, _, _)
breakKeyLoop(key, radix, stack) ==
  IF key > 0
    THEN breakKeyLoop(key \div radix, radix, Append(stack, key % radix))
    ELSE stack

\* _break_key: the digits of key, most significant first, none for 0
break_key(key, radix) == Reverse(breakKeyLoop(key, radix, << >>))

\* an add that writes the value whether or not the node holds one
RECURSIVE rtAddFromOverwrites(_, _, _, _)
rtAddFromOverwrites(node, stack, i, value) ==
  IF i = Len(stack)
    THEN [node EXCEPT !.value = value]
    ELSE LET k == stack[i + 1]
             child == IF k \notin DOMAIN node.children
                        THEN RadixTrieNode(k) ELSE node.children[k]
         IN [node EXCEPT !.children
               = DictSet(node.children, k,
                         rtAddFromOverwrites(child, stack, i + 1, value))]

\* add, lines 38-45: the loop from the node reached after i digits, then the
\* write of the value, as the node it leaves behind
RECURSIVE rtAddFrom(_, _, _, _)
rtAddFrom(node, stack, i, value) ==
  IF i = Len(stack)
    THEN IF node.value # None THEN node ELSE [node EXCEPT !.value = value]
    ELSE LET k == stack[i + 1]
             child == IF k \notin DOMAIN node.children
                        THEN RadixTrieNode(k) ELSE node.children[k]
         IN [node EXCEPT !.children
               = DictSet(node.children, k, rtAddFrom(child, stack, i + 1, value))]

\* add: self.root after self.add(key, value)
rtAdd(root, radix, key, value) == rtAddFrom(root, break_key(key, radix), 0, value)

\* search, lines 52-57: the loop from the node reached after i digits
RECURSIVE rtSearchFrom(_, _, _)
rtSearchFrom(node, stack, i) ==
  IF i = Len(stack)
    THEN IF node.value = None THEN PyNone ELSE PyValue(node.value)
    ELSE IF stack[i + 1] \notin DOMAIN node.children THEN PyNone
         ELSE rtSearchFrom(node.children[stack[i + 1]], stack, i + 1)

\* search
rtSearch(root, radix, key) == rtSearchFrom(root, break_key(key, radix), 0)

\* getMaxKey, lines 64-69: the loop from node with max_key accumulated
RECURSIVE rtMaxLoop(_, _, _)
rtMaxLoop(node, max_key, radix) ==
  IF DOMAIN node.children # {}
    THEN LET max_child == SetMax(DOMAIN node.children)
         IN rtMaxLoop(node.children[max_child], max_key * radix + max_child, radix)
    ELSE PyKey(max_key)

\* getMaxKey: 0 on an empty trie
rtGetMaxKey(root, radix) == rtMaxLoop(root, 0, radix)

\* getMinKey, lines 74-82: dfs(node, path); the loop over the sorted child
\* digits returns the result of the first child whose result is not None
RECURSIVE rtDfs(_, _, _)
rtDfs(node, path, radix) ==
  IF node.value # None THEN PyKey(path)
  ELSE LET found == {k \in DOMAIN node.children :
                       rtDfs(node.children[k], path * radix + k, radix) # PyNone}
       IN IF found = {} THEN PyNone
          ELSE rtDfs(node.children[SetMin(found)], path * radix + SetMin(found),
                     radix)

\* getMinKey: None on an empty trie
rtGetMinKey(root, radix) == rtDfs(root, 0, radix)

\* __init__ with empty keys and values and the given radix
RtInit(radix) ==
  /\ rtRadix = radix
  /\ rtRoot = RadixTrieNode(0)
  /\ rtAdded = [k \in RtKeys |-> None]
  /\ rtLast = "init"

\* one call self.add(key, value).  rtAdded remembers the first value given
\* for each key; rtLast tells whether the key was new ("add") or had been
\* added before ("addDup").
RtAdd(key, value) ==
  /\ rtRoot' = rtAdd(rtRoot, rtRadix, key, value)
  /\ rtAdded' = IF rtAdded[key] = None THEN [rtAdded EXCEPT ![key] = value]
                ELSE rtAdded
  /\ rtLast' = IF rtAdded[key] = None THEN "add" ELSE "addDup"
  /\ UNCHANGED <<rtRadix, avlVars, skVars, latVars, buildVars, arrVars>>

RtNext == \E key \in RtKeys, value \in Values : RtAdd(key, value)

(***************************************************************************)
(* The constructors on input lists.  bKeys and bValues are the parallel    *)
(* lists a constructor is given; bPc tells which constructor has run on    *)
(* them ("input": none yet).  Each constructor is one step that leaves the *)
(* structure it built in that structure's variables.                       *)
(***************************************************************************)
\* zip(keys, values): the pairs, as many as the shorter list has
Zip(keys, values) ==
  [i \in 1..Min2(Len(keys), Len(values)) |-> <<keys[i], values[i]>>]

\* the value at the first, and at the last, place where key occurs in keys
FirstValue(keys, values, key) ==
  LET at == {i \in 1..Len(keys) : keys[i] = key}
  IN IF at = {} THEN None
     ELSE values[CHOOSE i \in at : \A j \in at : i <= j]

LastValue(keys, values, key) ==
  LET at == {i \in 1..Len(keys) : keys[i] = key}
  IN IF at = {} THEN None
     ELSE values[CHOOSE i \in at : \A j \in at : i >= j]

\* binarySearchTree.__init__, lines 21-22: the adds from the i-th pair on;
\* r is the tree the i-th add leaves, on which the loop goes on
RECURSIVE avlBuildLoop(_, _, _, _)
avlBuildLoop(h, root, pairs, i) ==
  IF i > Len(pairs) THEN [heap |-> h, root |-> root]
  ELSE CHOOSE built \in {avlBuildLoop(r.heap, r.root, pairs, i + 1) :
                           r \in {add(h, root, pairs[i][1], pairs[i][2])}} : TRUE

\* binarySearchTree(keys, values)
BuildAVL ==
  /\ bPc = "input"
  /\ LET r == avlBuildLoop(<< >>, None, Zip(bKeys, bValues), 1)
     IN avlNodes' = r.heap /\ avlRoot' = r.root
  /\ avlAdded' = [k \in AvlKeys |-> FirstValue(bKeys, bValues, k)]
  /\ avlLast' = [op |-> "build", rot |-> << >>]
  /\ bPc' = "avl"
  /\ UNCHANGED <<arrVars, bKeys, bValues, skVars, latVars, rtVars>>

\* math.ceil(math.log(n, 2)) for n >= 1: the least e with 2^e >= n
RECURSIVE CeilLog2From(_, _)
CeilLog2From(n, e) == IF Power(2, e) >= n THEN e ELSE CeilLog2From(n, e + 1)

\* skip_list.py line 20: the cap on the estimated number of levels
SkLevelCap == 32

\* SkipList.__init__, lines 18-20: max_levels when none is given, for n >= 1
\* keys
defaultMaxLevels(n) == Max2(1, Min2(SkLevelCap, CeilLog2From(n, 0)))

\* SkipList.__init__, lines 24-25: the adds from the i-th pair on, where the
\* random source gives heads[i] heads in a row in the i-th add
RECURSIVE skBuildLoop(_, _, _, _, _, _)
skBuildLoop(h, lvl, max_levels, pairs, heads, i) ==
  IF i > Len(pairs) THEN [heap |-> h, lvl |-> lvl]
  ELSE CHOOSE built \in
         {skBuildLoop(r.heap, r.lvl, max_levels, pairs, heads, i + 1) :
            r \in {skAdd(h, lvl, max_levels, pairs[i][1], pairs[i][2], heads[i])}} :
         TRUE

\* SkipList(keys, values) with no max_levels given; math.log raises
\* ValueError on len(keys) = 0 and no object is constructed
BuildSkip(heads) ==
  /\ bPc = "input"
  /\ IF Len(bKeys) = 0
       THEN /\ bPc' = "skipValueError"
            /\ UNCHANGED skVars
       ELSE LET max_levels == defaultMaxLevels(Len(bKeys))
                h0 == (head :> skipNode(NegInf, None, max_levels))
                r == skBuildLoop(h0, 0, max_levels, Zip(bKeys, bValues), heads, 1)
            IN /\ bPc' = "skip"
               /\ skMaxLevels' = max_levels
               /\ skNodes' = r.heap
               /\ skLvl' = r.lvl
               /\ skStored' = [k \in SkKeys |-> FirstValue(bKeys, bValues, k)]
               /\ skLast' = [op |-> "build", raised |-> FALSE, grew |-> FALSE,
                             drew |-> FALSE]
  /\ UNCHANGED <<arrVars, bKeys, bValues, avlVars, latVars, rtVars>>

\* LAT.py lines 35-36: the radix and height used when none is given
LatDefaultRadix == 4
LatDefaultHeight == 4

\* LAT.__init__, lines 41-42: the adds from the i-th pair on
RECURSIVE latBuildLoop(_, _, _, _, _)
latBuildLoop(root, radix, height, pairs, i) ==
  IF i > Len(pairs) THEN root
  ELSE CHOOSE built \in
         {latBuildLoop(r, radix, height, pairs, i + 1) :
            r \in {latAdd(root, radix, height, pairs[i][1], pairs[i][2])}} : TRUE

\* LAT(keys, values) with no radix and height given
BuildLAT ==
  /\ bPc = "input"
  /\ latRadix' = LatDefaultRadix
  /\ latHeight' = LatDefaultHeight
  /\ latRoot' = latBuildLoop(IndexNode(LatDefaultRadix, LatDefaultHeight, 0),
                             LatDefaultRadix, LatDefaultHeight,
                             Zip(bKeys, bValues), 1)
  /\ latAdded' = [k \in LatKeys |-> LastValue(bKeys, bValues, k)]
  /\ latLast' = "build"
  /\ bPc' = "lat"
  /\ UNCHANGED <<arrVars, bKeys, bValues, avlVars, skVars, rtVars>>

\* the order of Python tuples (key, value): by key, then by value
PairLe(a, b) == a[1] < b[1] \/ (a[1] = b[1] /\ a[2] <= b[2])

\* pair p put into the ascending list s
RECURSIVE SortedInsert(_, _)
SortedInsert(p, s) ==
  IF s = << >> THEN <<p>>
  ELSE IF PairLe(p, Head(s)) THEN <<p>> \o s
       ELSE <<Head(s)>> \o SortedInsert(p, Tail(s))

\* sorted(pairs): the pairs in ascending order
RECURSIVE Sorted(_)
Sorted(pairs) ==
  IF pairs = << >> THEN << >>
  ELSE SortedInsert(Head(pairs), Sorted(Tail(pairs)))

\* RadixTrie.__init__, lines 22-23: the adds from the i-th pair on
RECURSIVE rtBuildLoop(_, _, _, _)
rtBuildLoop(root, radix, pairs, i) ==
  IF i > Len(pairs) THEN root
  ELSE CHOOSE built \in
         {rtBuildLoop(r, radix, pairs, i + 1) :
            r \in {rtAdd(root, radix, pairs[i][1], pairs[i][2])}} : TRUE

\* RadixTrie(keys, values, radix) with a radix >= 2 given: the pairs are
\* sorted, then added in that order
BuildRadix(radix) ==
  /\ bPc = "input"
  /\ rtRadix' = radix
  /\ LET pairs == IF Len(bKeys) = 0 THEN << >> ELSE Sorted(Zip(bKeys, bValues))
     IN /\ rtRoot' = rtBuildLoop(RadixTrieNode(0), radix, pairs, 1)
        /\ rtAdded' = [k \in RtKeys |->
                         FirstValue([i \in 1..Len(pairs) |-> pairs[i][1]],
                                    [i \in 1..Len(pairs) |-> pairs[i][2]], k)]
  /\ rtLast' = "build"
  /\ bPc' = "radix"
  /\ UNCHANGED <<arrVars, bKeys, bValues, avlVars, skVars, latVars>>

\* twice np.median(keys) of the ascending keys: the middle key, or the mean
\* of the two middle keys
TwiceMedian(keys) ==
  LET n == Len(keys)
  IN IF n % 2 = 1 THEN 2 * keys[(n + 1) \div 2]
     ELSE keys[n \div 2] + keys[n \div 2 + 1]

\* the nearest integer to the square root of x / 2
RoundSqrtOfHalf(x) ==
  CHOOSE r \in 0..x : 4 * r * r - 4 * r + 1 < 2 * x /\ 2 * x < 4 * r * r + 4 * r + 1

\* int(np.sqrt(x / 2)): the square root cut to its integer part
IntSqrtOfHalf(x) ==
  CHOOSE r \in 0..x : 2 * r * r <= x /\ x < 2 * (r + 1) * (r + 1)

\* line 21 without a radix: int(np.sqrt(np.median(keys)))
defaultRadix(keys) == IntSqrtOfHalf(TwiceMedian(keys))

\* RadixTrie(keys, values): line 17 gives radix 2 to empty input; line 21
\* computes the radix of the sorted keys, and lines 22-23 add the pairs.
\* With radix 1 the first add stays in the loop of _break_key (key // 1 is
\* key) and with radix 0 it divides by zero: the radix is assigned, nothing
\* is stored and the constructor does not return.
BuildRadixDefault ==
  /\ bPc = "input"
  /\ LET pairs == IF Len(bKeys) = 0 THEN << >> ELSE Sorted(Zip(bKeys, bValues))
         keys == [i \in 1..Len(pairs) |-> pairs[i][1]]
         radix == IF Len(bKeys) = 0 THEN 2 ELSE defaultRadix(keys)
     IN /\ rtRadix' = radix
        /\ IF radix >= 2
             THEN /\ rtRoot' = rtBuildLoop(RadixTrieNode(0), radix, pairs, 1)
                  /\ rtAdded' = [k \in RtKeys |->
                                   FirstValue(keys,
                                              [i \in 1..Len(pairs) |-> pairs[i][2]], k)]
                  /\ bPc' = "radixDefault"
             ELSE /\ rtRoot' = RadixTrieNode(0)
                  /\ rtAdded' = [k \in RtKeys |-> None]
                  /\ bPc' = IF radix = 1 THEN "radixDefaultNoReturn"
                            ELSE "radixDefaultZeroDivision"
  /\ rtLast' = "build"
  /\ UNCHANGED <<arrVars, bKeys, bValues, avlVars, skVars, latVars>>

BuildNext ==
  \/ BuildAVL
  \/ \E heads \in [1..Len(bKeys) -> 0..defaultMaxLevels(Max2(1, Len(bKeys)))] :
       BuildSkip(heads)
  \/ BuildLAT
  \/ \E radix \in 2..RtMaxRadix : BuildRadix(radix)
  \/ BuildRadixDefault

\* the structures of the other specifications are constructed from empty
\* lists
BuildNoInput == bKeys = << >> /\ bValues = << >> /\ bPc = "empty"

(***************************************************************************)
(* Array.  arrKeys is self.keys and arrValues is self.values, two parallel *)
(* Python lists; a list index i of the code is place i + 1 here.  arrLast  *)
(* tells the last call, its arguments and what it returned.                *)
(***************************************************************************)
\* None in an index variable of rangeQuery (an index is at least -1)
NoIndex == -2

\* the truth value Python gives an index variable: None and 0 are false
Truthy(index) == index # NoIndex /\ index # 0

\* list[a:b] for 0 <= a and 0 <= b
Slice(list, a, b) ==
  [j \in 1..Max2(0, Min2(b, Len(list)) - a) |-> list[a + j]]

\* __init__, lines 7-9: the pairs sorted, split into the two lists
ArrInit(keys, values) ==
  LET pairs == Sorted(Zip(keys, values))
  IN /\ arrKeys = [i \in 1..Len(pairs) |-> pairs[i][1]]
     /\ arrValues = [i \in 1..Len(pairs) |-> pairs[i][2]]
     /\ arrLast = [op |-> "init", start |-> 0, end |-> 0, result |-> PyNone]

\* no Array is constructed (Array([], []) raises ValueError in line 7)
ArrNotConstructed ==
  /\ arrKeys = << >>
  /\ arrValues = << >>
  /\ arrLast = [op |-> "none", start |-> 0, end |-> 0, result |-> PyNone]

\* search, lines 12-15: the loop from index i
RECURSIVE arrSearchLoop(_, _, _, _)
arrSearchLoop(keys, values, i, key) ==
  IF i >= Len(keys) THEN PyNone
  ELSE IF keys[i + 1] = key THEN PyValue(values[i + 1])
       ELSE arrSearchLoop(keys, values, i + 1, key)

\* search
arrSearch(keys, values, key) == arrSearchLoop(keys, values, 0, key)

\* list.insert(i, x) for 0 <= i <= len(list)
ListInsert(list, i, x) ==
  [j \in 1..(Len(list) + 1) |->
     IF j <= i THEN list[j] ELSE IF j = i + 1 THEN x ELSE list[j - 1]]

\* add, lines 24-30: the loop from index i, as the two lists it leaves
RECURSIVE arrAddLoop(_, _, _, _, _)
arrAddLoop(keys, values, i, key, value) ==
  IF i >= Len(keys) THEN [keys |-> keys, values |-> values]
  ELSE LET k == keys[i + 1]
       IN IF k > key
            THEN [keys |-> ListInsert(keys, i, key),
                  values |-> ListInsert(values, i, value)]
            ELSE IF k = key THEN [keys |-> keys, values |-> values]
                 ELSE arrAddLoop(keys, values, i + 1, key, value)

\* rangeQuery, lines 42-55: the loop from index i (a break is a jump to
\* the end of the list), then the return
RECURSIVE rangeLoop(_, _, _, _, _, _, _)
rangeLoop(keys, values, i, start_index, end_index, start_key, end_key) ==
  IF i >= Len(keys)
    THEN IF start_index = NoIndex \/ end_index = NoIndex THEN PyNone
         ELSE PyList(Slice(values, start_index, end_index + 1))
    ELSE LET k == keys[i + 1]
             s == IF k = start_key THEN i
                  ELSE IF ~Truthy(start_index) /\ k > start_key THEN i
                       ELSE start_index
         IN IF k = end_key
              THEN rangeLoop(keys, values, Len(keys), s, i, start_key, end_key)
              ELSE IF k > end_key
                     THEN rangeLoop(keys, values, Len(keys), s, i - 1,
                                    start_key, end_key)
                     ELSE rangeLoop(keys, values, i + 1, s, end_index,
                                    start_key, end_key)

\* rangeQuery
rangeQuery(keys, values, start_key, end_key) ==
  rangeLoop(keys, values, 0, NoIndex, NoIndex, start_key, end_key)

\* one call self.add(key, value)
ArrAdd(key, value) ==
  LET r == arrAddLoop(arrKeys, arrValues, 0, key, value)
  IN /\ arrKeys' = r.keys
     /\ arrValues' = r.values
     /\ arrLast' = [op |-> "add", start |-> key, end |-> key, result |-> PyNone]
     /\ UNCHANGED <<avlVars, skVars, latVars, rtVars, buildVars>>

\* one call self.rangeQuery(start_key, end_key)
ArrRangeQuery(start_key, end_key) ==
  /\ arrLast' = [op |-> "rangeQuery", start |-> start_key, end |-> end_key,
                 result |-> rangeQuery(arrKeys, arrValues, start_key, end_key)]
  /\ UNCHANGED <<arrKeys, arrValues, avlVars, skVars, latVars, rtVars, buildVars>>

ArrNext ==
  \/ \E key \in ArrArgs, value \in Values : ArrAdd(key, value)
  \/ \E start_key, end_key \in ArrArgs : ArrRangeQuery(start_key, end_key)

(***************************************************************************)
(* The specifications: one structure operates, the others stay as          *)
(* constructed.                                                            *)
(***************************************************************************)
vars == <<avlVars, skVars, latVars, rtVars, buildVars, arrVars>>

InitAVL == AvlInit /\ SkInit(1) /\ LatInit(2, 1) /\ RtInit(2) /\ BuildNoInput /\ ArrNotConstructed

InitSkip ==
  /\ \E max_levels \in 1..SkMaxLevels : SkInit(max_levels)
  /\ AvlInit /\ LatInit(2, 1) /\ RtInit(2) /\ BuildNoInput /\ ArrNotConstructed

InitLAT ==
  /\ \E radix \in 2..LatMaxRadix, height \in 1..LatMaxHeight : LatInit(radix, height)
  /\ AvlInit /\ SkInit(1) /\ RtInit(2) /\ BuildNoInput /\ ArrNotConstructed

InitRadix ==
  /\ \E radix \in 2..RtMaxRadix : RtInit(radix)
  /\ AvlInit /\ SkInit(1) /\ LatInit(2, 1) /\ BuildNoInput /\ ArrNotConstructed

\* the input lists are chosen, no constructor has run on them yet
InitBuild ==
  /\ \E n \in 0..BuildMaxLen :
       \E keys \in [1..n -> BuildKeys], values \in [1..n -> Values] :
         bKeys = keys /\ bValues = values
  /\ bPc = "input"
  /\ AvlInit /\ SkInit(1) /\ LatInit(2, 1) /\ RtInit(2) /\ ArrNotConstructed

SpecAVL == InitAVL /\ [][AvlNext]_vars

SpecSkip == InitSkip /\ [][SkNext]_vars

SpecLAT == InitLAT /\ [][LatNext]_vars

SpecRadix == InitRadix /\ [][RtNext]_vars

SpecBuild == InitBuild /\ [][BuildNext]_vars

\* the Array is constructed from any non-empty input lists
InitArray ==
  /\ \E n \in 1..ArrMaxLen :
       \E keys \in [1..n -> ArrKeys], values \in [1..n -> Values] :
         ArrInit(keys, values)
  /\ AvlInit /\ SkInit(1) /\ LatInit(2, 1) /\ RtInit(2) /\ BuildNoInput

SpecArray == InitArray /\ [][ArrNext]_vars

(***************************************************************************)
(* Measurements of the tree that the properties are stated with.  They are *)
(* computed from the child pointers alone, never from the cached heights.  *)
(***************************************************************************)
Abs(x) == IF x < 0 THEN -x ELSE x

\* height of the subtree at n: 0 for an absent child, 1 for a leaf
RECURSIVE TreeHeight(_, _)
TreeHeight(h, n) ==
  IF n = None THEN 0
  ELSE 1 + Max2(TreeHeight(h, h[n].left), TreeHeight(h, h[n].right))

\* the nodes met by an in-order traversal from n, in order
RECURSIVE InOrderNodes(_, _)
InOrderNodes(h, n) ==
  IF n = None THEN << >>
  ELSE InOrderNodes(h, h[n].left) \o <<n>> \o InOrderNodes(h, h[n].right)

InOrderKeys(h, root) ==
  LET nodes == InOrderNodes(h, root)
  IN [i \in 1..Len(nodes) |-> h[nodes[i]].key]

TreeNodes(h, root) ==
  LET nodes == InOrderNodes(h, root)
  IN {nodes[i] : i \in 1..Len(nodes)}

\* every key of the subtree at n lies strictly between lo and hi
RECURSIVE IsBST(_, _, _, _)
IsBST(h, n, lo, hi) ==
  \/ n = None
  \/ /\ lo < h[n].key
     /\ h[n].key < hi
     /\ IsBST(h, h[n].left, lo, h[n].key)
     /\ IsBST(h, h[n].right, h[n].key, hi)

StrictlyAscending(s) == \A i \in 1..(Len(s) - 1) : s[i] < s[i + 1]

AvlSize == Cardinality(DOMAIN avlNodes)

\* C1: after any sequence of adds, at every node of the tree the heights of
\* the left and the right subtree differ by at most 1 (absent child = 0).
C1_AvlBalanced ==
  \A n \in TreeNodes(avlNodes, avlRoot) :
    Abs(TreeHeight(avlNodes, avlNodes[n].left)
        - TreeHeight(avlNodes, avlNodes[n].right)) <= 1

\* 1..5 are stored and the last add made a single left rotation below the
\* root 2, which put 4 above 3 and 5 (as adding 1, 2, 3, 4, 5 in order does)
C1_Witness ==
  /\ AvlSize = 5
  /\ avlLast.rot = <<"RR">>
  /\ avlRoot = 2
  /\ avlNodes[2].right = 4
  /\ avlNodes[4].left = 3
  /\ avlNodes[4].right = 5

\* C2: after any sequence of adds the tree is a binary search tree whose
\* in-order traversal is strictly ascending and holds exactly the keys
\* ever added; every allocated node is in the tree exactly once.
C2_AvlOrdered ==
  LET nodes == InOrderNodes(avlNodes, avlRoot)
      keys == [i \in 1..Len(nodes) |-> avlNodes[nodes[i]].key]
  IN /\ IsBST(avlNodes, avlRoot, 0, AvlMaxKey + 1)
     /\ StrictlyAscending(keys)
     /\ {keys[i] : i \in 1..Len(keys)} = {k \in AvlKeys : avlAdded[k] # None}
     /\ Len(nodes) = AvlSize
     /\ {nodes[i] : i \in 1..Len(nodes)} = DOMAIN avlNodes
     /\ \A n \in DOMAIN avlNodes : avlNodes[n].key = n

\* 1 has just been added to the tree 5(3(2, 4), 6): the single right
\* rotation at the root 5 made 3 the root and moved its inner child 4 to 5
C2_Witness ==
  /\ avlLast.rot = <<"LL">>
  /\ AvlSize = 6
  /\ avlRoot = 3
  /\ avlNodes[3].left = 2
  /\ avlNodes[2].left = 1
  /\ avlNodes[3].right = 5
  /\ avlNodes[5].left = 4
  /\ avlNodes[5].right = 6

\* C3: after every completed add, every node's stored height equals
\* 1 + max(height(left), height(right)), 0 for an absent child.
C3_AvlCachedHeight ==
  \A n \in TreeNodes(avlNodes, avlRoot) :
    /\ avlNodes[n].height
         = 1 + Max2(TreeHeight(avlNodes, avlNodes[n].left),
                    TreeHeight(avlNodes, avlNodes[n].right))
    /\ avlNodes[n].height = NewHeight(avlNodes, n)
    /\ (avlNodes[n].left = None /\ avlNodes[n].right = None)
         => avlNodes[n].height = 1

\* the last add made a double rotation at the root of a tree of six nodes
\* (4 added to 5(2(1, 3), 6) or 3 added to 2(1, 5(4, 6))), which moves
\* both children of the new root
C3_Witness ==
  /\ avlLast.rot \in {<<"LR">>, <<"RL">>}
  /\ AvlSize = 6
  /\ avlRoot \in {3, 4}
  /\ avlNodes[avlRoot].height = 3
  /\ avlNodes[avlRoot].left # None
  /\ avlNodes[avlRoot].right # None

\* C7: in a non-empty tree search(k) returns the value first added for k,
\* and None for a key never added.
C7_AvlSearchReturnsValue ==
  avlRoot # None =>
    \A k \in AvlKeys :
      search(avlNodes, avlRoot, k)
        = IF avlAdded[k] # None THEN PyValue(avlAdded[k]) ELSE PyNone

\* what search does return for a stored key: the bstNode holding k and its value
AvlSearchReturnsNode ==
  avlRoot # None =>
    \A k \in AvlKeys :
      LET r == search(avlNodes, avlRoot, k)
      IN IF avlAdded[k] # None
           THEN /\ r.tag = "node"
                /\ avlNodes[r.ref].key = k
                /\ avlNodes[r.ref].value = avlAdded[k]
           ELSE r = PyNone

\* C22: search on an empty tree (root None) returns None, without raising.
C22_AvlSearchEmptyReturnsNone ==
  avlRoot = None => \A k \in AvlKeys : search(avlNodes, avlRoot, k) = PyNone

\* what holds instead: on an empty tree search raises AttributeError
AvlSearchEmptyRaises ==
  avlRoot = None
    => \A k \in AvlKeys : search(avlNodes, avlRoot, k) = PyRaise("AttributeError")

\* C10: add(k, v2) with k already present leaves root and every node (key,
\* value, children, height) unchanged, so the first value stays.
C10_AvlDuplicateAddNoOp ==
  [][avlLast'.op = "dup"
       => /\ avlRoot' = avlRoot
          /\ avlNodes' = avlNodes
          /\ \A n \in DOMAIN avlNodes' :
               avlNodes'[n].value = avlAdded'[avlNodes'[n].key]]_vars

\* a key present in a tree of five nodes has just been added again
C10_Witness ==
  /\ avlLast.op = "dup"
  /\ AvlSize = 5

\* the child of n on the side where key belongs
Toward(h, n, key) == IF key < h[n].key THEN h[n].left ELSE h[n].right

\* C32: in one add of a new key at most one ancestor on the insertion path
\* rotates (single or double); the subtree the rotation leaves has the
\* height, computed and cached, that the subtree at that place had before
\* the add, and every ancestor above it stays in its place with its height
\* and its other child as before.  With no rotation no node changes place.
\* (path is the insertion path in the tree before the add, At(j) the node
\* found after the add in the place of path[j].)
C32_AvlSingleRepairSite ==
  [][avlLast'.op = "new"
       => LET key == CHOOSE k \in DOMAIN avlNodes' : k \notin DOMAIN avlNodes
              path == addDescend(avlNodes, avlRoot, key, << >>).traversed
              At(j) == IF j = 1 THEN avlRoot'
                       ELSE Toward(avlNodes', path[j - 1], key)
              InPlace(i) ==
                /\ At(i) = path[i]
                /\ avlNodes'[path[i]].key = avlNodes[path[i]].key
                /\ avlNodes'[path[i]].value = avlNodes[path[i]].value
                /\ IF key < avlNodes[path[i]].key
                     THEN avlNodes'[path[i]].right = avlNodes[path[i]].right
                     ELSE avlNodes'[path[i]].left = avlNodes[path[i]].left
          IN /\ Len(avlLast'.rot) <= 1
             /\ Len(avlLast'.rot) = 0 => \A i \in 1..Len(path) : InPlace(i)
             /\ Len(avlLast'.rot) = 1
                  => \E j \in 1..Len(path) :
                       /\ At(j) # path[j]
                       /\ TreeHeight(avlNodes', At(j)) = TreeHeight(avlNodes, path[j])
                       /\ avlNodes'[At(j)].height = avlNodes[path[j]].height
                       /\ \A i \in 1..(j - 1) :
                            /\ InPlace(i)
                            /\ avlNodes'[path[i]].height = avlNodes[path[i]].height
                            /\ TreeHeight(avlNodes', path[i])
                                 = TreeHeight(avlNodes, path[i])]_vars

\* the add of 2 under 1 made a double rotation at 3, below the root 5: 2
\* took the place of 3 and the root kept its height 3
C32_Witness ==
  /\ avlLast = [op |-> "new", rot |-> <<"LR">>]
  /\ AvlSize = 5
  /\ avlRoot = 5 /\ avlNodes[5].height = 3
  /\ avlNodes[5].left = 2 /\ avlNodes[5].right = 6
  /\ avlNodes[2].left = 1 /\ avlNodes[2].right = 3

\* the Fibonacci numbers 0, 1, 1, 2, 3, 5, 8, ...
RECURSIVE Fib(_)
Fib(n) == IF n <= 1 THEN n ELSE Fib(n - 1) + Fib(n - 2)

\* the tree that adding the keys 1..n in ascending order leaves
AscendingTree(n) ==
  avlBuildLoop(<< >>, None, [i \in 1..n |-> <<i, 1>>], 1)

\* C27: after any sequence of adds a tree of n keys and root height h has
\* n >= Fib(h + 2) - 1, the least size of an AVL tree of height h; the
\* height is the one the root caches; and the keys 1..7 added in ascending
\* order to the empty tree give height 3.
C27_AvlHeightLogarithmic ==
  /\ AvlSize >= Fib(TreeHeight(avlNodes, avlRoot) + 2) - 1
  /\ avlRoot # None => avlNodes[avlRoot].height = TreeHeight(avlNodes, avlRoot)
  /\ avlRoot = None
       => LET t == AscendingTree(7)
          IN TreeHeight(t.heap, t.root) = 3 /\ t.heap[t.root].height = 3

\* an add of a new key has left a tree of height 3 with the least size 4
\* that height allows
C27_Witness ==
  /\ avlLast.op = "new"
  /\ AvlSize = 4
  /\ TreeHeight(avlNodes, avlRoot) = 3
  /\ avlNodes[avlRoot].height = 3

\* C15: in a non-empty tree, after any sequence of adds, getMinKey() is the
\* least and getMaxKey() the greatest of the keys added.
C15_AvlMinMax ==
  LET K == {k \in AvlKeys : avlAdded[k] # None}
  IN K # {} => /\ avlGetMinKey(avlNodes, avlRoot) = PyKey(SetMin(K))
               /\ avlGetMaxKey(avlNodes, avlRoot) = PyKey(SetMax(K))

\* a key has just been added to a tree of six keys with root 4, in which
\* the least and the greatest key are both two links below the root
C15_Witness ==
  /\ avlLast.op = "new"
  /\ AvlSize = 6
  /\ avlRoot = 4
  /\ avlNodes[avlRoot].left # None
  /\ avlNodes[avlNodes[avlRoot].left].left # None
  /\ avlNodes[avlRoot].right # None
  /\ avlNodes[avlNodes[avlRoot].right].right # None

(***************************************************************************)
(* Measurements of the skip list that the properties are stated with.      *)
(***************************************************************************)
\* the nodes met from the head along level i (Python index), in order; the
\* walk gives up, leaving a last element None, after more steps than there
\* are nodes (a cycle) or on a node that has no level i
RECURSIVE ChainFrom(_, _, _, _)
ChainFrom(h, n, i, fuel) ==
  IF i + 1 > Len(h[n].forward) \/ fuel = 0 THEN <<None>>
  ELSE LET nxt == h[n].forward[i + 1]
       IN IF nxt = None THEN << >>
          ELSE <<nxt>> \o ChainFrom(h, nxt, i, fuel - 1)

Chain(h, i) == ChainFrom(h, head, i, Cardinality(DOMAIN h))

ChainSet(h, i) == {Chain(h, i)[j] : j \in 1..Len(Chain(h, i))}

SkLevels == 0..(skMaxLevels - 1)

\* C4: after any sequence of add and delete calls, at every level the chain
\* from the head has strictly increasing keys and ends in None, and the
\* level-0 chain holds exactly the keys stored (added, not deleted since).
C4_SkipOrdered ==
  /\ \A i \in SkLevels :
       LET c == Chain(skNodes, i)
       IN /\ \A j \in 1..Len(c) : c[j] # None
          /\ \A j \in 1..(Len(c) - 1) : skNodes[c[j]].key < skNodes[c[j + 1]].key
  /\ LET c == Chain(skNodes, 0)
     IN /\ {skNodes[c[j]].key : j \in 1..Len(c)}
            = {k \in SkKeys : skStored[k] # None}
        /\ Len(c) = Cardinality({k \in SkKeys : skStored[k] # None})

\* a stored key has just been deleted from between two others, which stay
\* linked, one of them at every level
C4_Witness ==
  /\ skLast.op = "delete"
  /\ skMaxLevels = 2
  /\ Chain(skNodes, 0) = <<1, 3>>
  /\ Len(Chain(skNodes, 1)) = 1

\* C5: after any sequence of add and delete calls, the nodes linked at
\* level L are among the nodes linked at level L-1.
C5_SkipLevelContainment ==
  \A i \in SkLevels :
    i > 0 => ChainSet(skNodes, i) \subseteq ChainSet(skNodes, i - 1)

\* an upper level links a proper, non-empty part of the nodes of level 0
C5_Witness ==
  /\ skMaxLevels >= 2
  /\ ChainSet(skNodes, 1) # {}
  /\ ChainSet(skNodes, 1) # ChainSet(skNodes, 0)
  /\ Len(Chain(skNodes, 0)) = 3

\* C6: search(k) returns the value k was added with for every stored key
\* and None for every key not stored, in every state and so right after
\* every add, whatever level was drawn for the new node.
C6_SkipRoundTrip ==
  \A k \in SkKeys :
    skSearch(skNodes, skLvl, skMaxLevels, k)
      = IF skStored[k] # None THEN PyValue(skStored[k]) ELSE PyNone

\* a key has just been added next to stored keys at a level above self.lvl
C6_Witness ==
  /\ skLast.op = "add"
  /\ skLast.grew
  /\ Len(Chain(skNodes, 0)) = 3

\* C11: add(k, v2) with k already stored changes no forward pointer, no
\* node's value and not self.lvl, and draws no random level; search(k) still
\* returns the value k was first added with.
C11_SkipDuplicateAddNoOp ==
  [][skLast'.op = "addDup"
       => /\ skNodes' = skNodes
          /\ skLvl' = skLvl
          /\ ~skLast'.drew
          /\ \A k \in SkKeys :
               /\ skStored'[k] = skStored[k]
               /\ skSearch(skNodes', skLvl', skMaxLevels', k)
                    = IF skStored[k] # None THEN PyValue(skStored[k])
                      ELSE PyNone]_vars

\* a stored key has just been added again while self.lvl is below the
\* highest level a draw can give and other keys are stored
C11_Witness ==
  /\ skLast.op = "addDup"
  /\ skMaxLevels = 2
  /\ skLvl = 0
  /\ Len(Chain(skNodes, 0)) = 2

\* C16: after any sequence of add and delete calls, with a key stored,
\* getMinKey() is the least and getMaxKey() the greatest key stored, also
\* when self.lvl is above the level of every node left.
C16_SkipMinMax ==
  LET K == {k \in SkKeys : skStored[k] # None}
  IN K # {} => /\ skGetMinKey(skNodes) = PyKey(SetMin(K))
               /\ skGetMaxKey(skNodes, skLvl) = PyKey(SetMax(K))

\* a delete has just emptied the upper level: self.lvl is 1, the two nodes
\* left are linked at level 0 only
C16_Witness ==
  /\ skLast.op = "delete"
  /\ skLvl = 1
  /\ Len(Chain(skNodes, 0)) = 2
  /\ Chain(skNodes, 1) = << >>

\* what a delete of stored key k leaves behind: k is linked at no level and
\* every other node at the levels it was linked at, search(k) is None and
\* search of every other key is what it was
SkipUnlinked(k) ==
  /\ \A i \in SkLevels : ChainSet(skNodes', i) = ChainSet(skNodes, i) \ {k}
  /\ \A i \in SkLevels : \A j \in 1..Len(Chain(skNodes', i)) :
       Chain(skNodes', i)[j] # None
  /\ skSearch(skNodes', skLvl', skMaxLevels', k) = PyNone
  /\ \A j \in SkKeys \ {k} :
       skSearch(skNodes', skLvl', skMaxLevels', j)
         = skSearch(skNodes, skLvl, skMaxLevels, j)

\* C20: in any state reached by adds and deletes, whatever values the keys
\* hold, delete(k) of a stored key k ends without raising and unlinks k's
\* node from every level it is linked at and from no other place: afterwards
\* search(k) is None and every other stored key is linked at the same levels
\* with the same value.
C20_SkipDeletePresent ==
  [][skLast'.op = "delete"
       => \E k \in SkKeys :
            /\ skStored[k] # None
            /\ skStored' = [skStored EXCEPT ![k] = None]
            /\ ~skLast'.raised
            /\ SkipUnlinked(k)]_vars

\* what holds instead: the delete of a stored key unlinks its node as
\* stated, whether or not the call ends in the IndexError
SkipDeleteUnlinksEvenWhenRaising ==
  [][skLast'.op = "delete"
       => \E k \in SkKeys :
            /\ skStored[k] # None
            /\ skStored' = [skStored EXCEPT ![k] = None]
            /\ SkipUnlinked(k)]_vars

\* and the call raises only when, above the top level of the deleted node,
\* the node after the last node before k holds an equal value
SkipDeleteRaisesOnEqualValue ==
  [][(skLast'.op = "delete" /\ skLast'.raised)
       => \E k \in SkKeys, n \in DOMAIN skNodes \ {head} :
            /\ skStored[k] # None /\ skStored'[k] = None
            /\ n # k
            /\ skNodes[n].value = skNodes[k].value
            /\ Len(skNodes[n].forward) > Len(skNodes[k].forward)]_vars

\* C21: delete(k) of a key that is not stored, on an empty list or with k
\* between, below or above the stored keys, raises nothing and leaves every
\* forward pointer, every value and self.lvl unchanged.
C21_SkipDeleteAbsentNoOp ==
  /\ \A k \in SkKeys :
       skStored[k] = None
         => skDelete(skNodes, skLvl, skMaxLevels, k)
              = [heap |-> skNodes, absent |-> TRUE, raised |-> FALSE]
  /\ skLast.op = "deleteAbsent" => ~skLast.raised

\* a delete of a key not stored has just run on a list of two levels that
\* stores 1 and 3 and not 2
C21_Witness ==
  /\ skLast.op = "deleteAbsent"
  /\ skLvl = 1
  /\ Chain(skNodes, 0) = <<1, 3>>
  /\ Chain(skNodes, 1) # << >>

\* C28: whatever the coin flips, _randomLevel returns a level in
\* 0..max_levels - 1; so at all times self.lvl <= max_levels - 1, the
\* forward array of a new node has its level + 1 entries, every forward
\* array has at most max_levels entries, as many as the head's, and every
\* forward[i] and update[i] that add, search, _search_helper and getMaxKey
\* read or write exists: update has max_levels entries, and a pointer of
\* level i leads to a node that has a level i.
C28_SkipLevelCapAndIndexSafety ==
  /\ \A heads \in 0..(skMaxLevels + 2) :
       randomLevel(heads, skMaxLevels) \in 0..(skMaxLevels - 1)
  /\ skLvl \in 0..(skMaxLevels - 1)
  /\ Len(skNodes[head].forward) = skMaxLevels
  /\ \A n \in DOMAIN skNodes : Len(skNodes[n].forward) \in 1..skMaxLevels
  /\ \A n \in DOMAIN skNodes : \A i \in 1..Len(skNodes[n].forward) :
       LET nxt == skNodes[n].forward[i]
       IN nxt # None => nxt \in DOMAIN skNodes /\ i <= Len(skNodes[nxt].forward)
  /\ \A k \in SkKeys :
       /\ Len(search_helper(skNodes, skLvl, skMaxLevels, k)) = skMaxLevels
       /\ skStored[k] = None =>
            \A heads \in 0..skMaxLevels :
              LET r == skAdd(skNodes, skLvl, skMaxLevels, k, 1, heads)
              IN /\ Len(r.heap[k].forward) = r.levels + 1
                 /\ r.levels = Min2(heads, skMaxLevels - 1)
                 /\ r.lvl <= skMaxLevels - 1

\* an add has raised self.lvl to the highest level, max_levels - 1, with a
\* node whose forward array is as long as the head's
C28_Witness ==
  /\ skMaxLevels = SkMaxLevels
  /\ skLast.op = "add" /\ skLast.grew
  /\ skLvl = skMaxLevels - 1
  /\ \E k \in SkKeys : /\ k \in DOMAIN skNodes
                        /\ Len(skNodes[k].forward) = skMaxLevels
                        /\ skNodes[head].forward[skMaxLevels] = k

(***************************************************************************)
(* Properties of the two tries.                                            *)
(***************************************************************************)
\* C8: after any sequence of adds search(k) returns the value most recently
\* added for k if k was ever added and None otherwise, for every key, also
\* for keys >= radix^height that share their digit path with another key.
C8_LatRoundTrip ==
  \A k \in LatKeys :
    latSearch(latRoot, latRadix, latHeight, k)
      = IF latAdded[k] # None THEN PyValue(latAdded[k]) ELSE PyNone

\* radix 2, height 2 (capacity 4): 0, 1, 3 and 4 were added and 5 was not;
\* 4 shares the path of 0 and 5 the path of 1
C8_Witness ==
  /\ latRadix = 2 /\ latHeight = 2
  /\ {k \in LatKeys : latAdded[k] # None} = {0, 1, 3, 4}
  /\ latAdded[0] # latAdded[4]
  /\ key_conversion(4, latRadix, latHeight) = key_conversion(0, latRadix, latHeight)
  /\ key_conversion(5, latRadix, latHeight) = key_conversion(1, latRadix, latHeight)
  /\ 4 >= Power(latRadix, latHeight)

\* the nodes of the LAT under node, each named by the digits that lead to it
RECURSIVE LatNodePaths(_, _)
LatNodePaths(node, path) ==
  IF node.kind = "LATLeafNode" THEN {path}
  ELSE {path} \cup UNION {LatNodePaths(node.pointers[d], Append(path, d)) :
                            d \in DOMAIN node.pointers}

\* the node that the digits of path lead to from node
RECURSIVE LatNodeAt(_, _)
LatNodeAt(node, path) ==
  IF path = << >> THEN node
  ELSE LatNodeAt(node.pointers[Head(path)], Tail(path))

\* the number that the digits, most significant first, write in the radix
RECURSIVE DigitsValue(_, _)
DigitsValue(digits, radix) ==
  IF digits = << >> THEN 0
  ELSE radix * DigitsValue(SubSeq(digits, 1, Len(digits) - 1), radix)
       + digits[Len(digits)]

\* C29: after any sequence of adds every LATLeafNode is at depth height,
\* every node at a depth below height is an IndexNode whose level is its
\* depth, every key stored in a leaf has key_conversion(key) equal to the
\* digits from the root to that leaf, and key_conversion returns exactly
\* height digits, each in 0..radix-1, most significant first.
C29_LatFixedDepth ==
  /\ \A path \in LatNodePaths(latRoot, << >>) :
       LET node == LatNodeAt(latRoot, path)
       IN /\ Len(path) <= latHeight
          /\ Len(path) < latHeight
               => /\ node.kind = "IndexNode"
                  /\ node.level = Len(path)
                  /\ DOMAIN node.pointers \subseteq 0..(latRadix - 1)
          /\ Len(path) = latHeight
               => /\ node.kind = "LATLeafNode"
                  /\ node.data # EmptyDict
                  /\ \A key \in DOMAIN node.data :
                       key_conversion(key, latRadix, latHeight) = path
  /\ \A key \in LatKeys :
       LET digits == key_conversion(key, latRadix, latHeight)
       IN /\ Len(digits) = latHeight
          /\ \A i \in 1..latHeight : digits[i] \in 0..(latRadix - 1)
          /\ DigitsValue(digits, latRadix) = key % Power(latRadix, latHeight)

\* radix 2, height 2: the leaves of the paths 00, 01 and 10 exist under two
\* IndexNodes of level 1, and the leaf of 01 holds 1 and 5
C29_Witness ==
  /\ latRadix = 2 /\ latHeight = 2
  /\ latLast = "add"
  /\ {path \in LatNodePaths(latRoot, << >>) : Len(path) = 2}
       = {<<0, 0>>, <<0, 1>>, <<1, 0>>}
  /\ latRoot.pointers[0].level = 1 /\ latRoot.pointers[1].level = 1
  /\ DOMAIN latRoot.pointers[0].pointers[1].data = {1, 5}

\* s comes before t in lexicographic order (s and t of equal length)
LexLess(s, t) ==
  \E i \in 1..Len(s) : s[i] < t[i] /\ \A j \in 1..(i - 1) : s[j] = t[j]

\* the leaves of the LAT under node
RECURSIVE LatLeaves(_)
LatLeaves(node) ==
  IF node.kind = "LATLeafNode" THEN {node}
  ELSE UNION {LatLeaves(node.pointers[d]) : d \in DOMAIN node.pointers}

\* C30: for keys a < b in 0..radix^height - 1, key_conversion(a) differs
\* from key_conversion(b) and comes before it in lexicographic order; so in
\* a non-empty LAT all of whose keys are below radix^height every leaf holds
\* exactly one key, there are as many leaves as keys, and getMinKey() and
\* getMaxKey() return the least and the greatest key.  (radix and height
\* never change, so the conversions are compared where the LAT is
\* constructed.)
C30_LatOrderWithinCapacity ==
  /\ \A a, b \in LatKeys :
       (latLast = "init" /\ a < b /\ b < Power(latRadix, latHeight))
         => /\ key_conversion(a, latRadix, latHeight)
                 # key_conversion(b, latRadix, latHeight)
            /\ LexLess(key_conversion(a, latRadix, latHeight),
                       key_conversion(b, latRadix, latHeight))
  /\ LET K == {k \in LatKeys : latAdded[k] # None}
     IN (K # {} /\ \A k \in K : k < Power(latRadix, latHeight))
          => /\ \A leaf \in LatLeaves(latRoot) : Cardinality(DOMAIN leaf.data) = 1
             /\ UNION {DOMAIN leaf.data : leaf \in LatLeaves(latRoot)} = K
             /\ Cardinality(LatLeaves(latRoot)) = Cardinality(K)
             /\ latGetMinKey(latRoot) = PyKey(SetMin(K))
             /\ latGetMaxKey(latRoot) = PyKey(SetMax(K))

\* radix 2, height 2: the capacity 4 is used up by the keys 0, 1, 2, 3, the
\* last of them just added, each in a leaf of its own
C30_Witness ==
  /\ latRadix = 2 /\ latHeight = 2
  /\ latLast = "add"
  /\ {k \in LatKeys : latAdded[k] # None} = {0, 1, 2, 3}
  /\ Cardinality(LatLeaves(latRoot)) = 4
  /\ latGetMinKey(latRoot) = PyKey(0) /\ latGetMaxKey(latRoot) = PyKey(3)

\* C12: add(k, v2) with k added before makes search(k) return v2, creates no
\* node, and leaves the value of every other key as it was.
C12_LatDuplicateAddOverwrites ==
  [][latLast' = "addDup"
       => \E k \in LatKeys, v2 \in Values :
            /\ latAdded[k] # None
            /\ latAdded' = [latAdded EXCEPT ![k] = v2]
            /\ latSearch(latRoot', latRadix', latHeight', k) = PyValue(v2)
            /\ LatNodePaths(latRoot', << >>) = LatNodePaths(latRoot, << >>)
            /\ \A j \in LatKeys \ {k} :
                 latSearch(latRoot', latRadix', latHeight', j)
                   = latSearch(latRoot, latRadix, latHeight, j)]_vars

\* radix 2, height 2: a key has just been added again, and the leaf of 0
\* holds 0 and 4 with different values
C12_Witness ==
  /\ latLast = "addDup"
  /\ latRadix = 2 /\ latHeight = 2
  /\ latAdded[0] # None /\ latAdded[4] # None /\ latAdded[1] # None
  /\ latAdded[0] # latAdded[4]
  /\ Cardinality(LatNodePaths(latRoot, << >>)) = 4

\* C17: in a non-empty LAT of any radix >= 2 and height >= 1, holding any
\* set of non-negative keys, getMinKey() is the least and getMaxKey() the
\* greatest key added.
C17_LatMinMax ==
  LET K == {k \in LatKeys : latAdded[k] # None}
  IN K # {} => /\ latGetMinKey(latRoot) = PyKey(SetMin(K))
               /\ latGetMaxKey(latRoot) = PyKey(SetMax(K))

\* what holds instead: with every key added below radix^height, getMinKey()
\* and getMaxKey() are the least and the greatest key added
LatMinMaxWithinCapacity ==
  LET K == {k \in LatKeys : latAdded[k] # None}
  IN (K # {} /\ \A k \in K : k < Power(latRadix, latHeight))
       => /\ latGetMinKey(latRoot) = PyKey(SetMin(K))
          /\ latGetMaxKey(latRoot) = PyKey(SetMax(K))

\* the node reached from node by the digits of stack, None when there is none
RECURSIVE RtNodeAt(_, _, _)
RtNodeAt(node, stack, i) ==
  IF i = Len(stack) THEN node
  ELSE IF stack[i + 1] \notin DOMAIN node.children THEN None
       ELSE RtNodeAt(node.children[stack[i + 1]], stack, i + 1)

\* C9: for radix >= 2, search(k) returns the value first added for k for
\* every key added and None for a key never added (so an add of a new key
\* is found and disturbs no other key); distinct keys have distinct digit
\* paths; key 0 has the empty path and is stored at the root.
C9_RadixRoundTrip ==
  /\ \A k \in RtKeys :
       rtSearch(rtRoot, rtRadix, k)
         = IF rtAdded[k] # None THEN PyValue(rtAdded[k]) ELSE PyNone
  /\ \A k1, k2 \in RtKeys :
       k1 # k2 => break_key(k1, rtRadix) # break_key(k2, rtRadix)
  /\ break_key(0, rtRadix) = << >>
  /\ rtRoot.value = rtAdded[0]
  /\ \A k \in RtKeys :
       rtAdded[k] # None => RtNodeAt(rtRoot, break_key(k, rtRadix), 0).value = rtAdded[k]

\* key 0 and keys of one, two and three digits are stored with radix 2,
\* the last of them just added
C9_Witness ==
  /\ rtRadix = 2
  /\ rtLast = "add"
  /\ rtRoot.value # None
  /\ {k \in RtKeys : rtAdded[k] # None} = {0, 1, 2, 5}

\* C13: add(k, v2) when the node at k's digit path already holds a value
\* leaves that value and the whole trie unchanged.
C13_RadixFirstWriteWins ==
  \A k \in RtKeys, v2 \in Values :
    rtSearch(rtRoot, rtRadix, k) # PyNone
      => /\ rtAdd(rtRoot, rtRadix, k, v2) = rtRoot
         /\ rtSearch(rtAdd(rtRoot, rtRadix, k, v2), rtRadix, k)
              = PyValue(rtAdded[k])

\* a key whose node is an inner node of the trie (1, on the path of 2 and
\* 5 with radix 2) has just been added again
C13_Witness ==
  /\ rtRadix = 2
  /\ rtLast = "addDup"
  /\ {k \in RtKeys : rtAdded[k] # None} = {1, 2, 5}

\* C18: in a non-empty RadixTrie with radix >= 2, whose keys may differ in
\* their number of digits, getMaxKey() is the greatest key added.
C18_RadixMax ==
  LET K == {k \in RtKeys : rtAdded[k] # None}
  IN K # {} => rtGetMaxKey(rtRoot, rtRadix) = PyKey(SetMax(K))

\* C19: in a non-empty RadixTrie with radix >= 2, whose keys may differ in
\* their number of digits, getMinKey() is the least key added; it is 0
\* whenever key 0 was added.
C19_RadixMin ==
  LET K == {k \in RtKeys : rtAdded[k] # None}
  IN K # {} => /\ rtGetMinKey(rtRoot, rtRadix) = PyKey(SetMin(K))
               /\ 0 \in K => rtGetMinKey(rtRoot, rtRadix) = PyKey(0)

\* what holds instead: when the keys added all have the same number of
\* digits, getMaxKey() and getMinKey() are the greatest and the least of
\* them; and getMinKey() is 0 whenever key 0 was added
RadixMinMaxEqualLengths ==
  LET K == {k \in RtKeys : rtAdded[k] # None}
  IN /\ (K # {} /\ \A j, k \in K :
                      Len(break_key(j, rtRadix)) = Len(break_key(k, rtRadix)))
          => /\ rtGetMaxKey(rtRoot, rtRadix) = PyKey(SetMax(K))
             /\ rtGetMinKey(rtRoot, rtRadix) = PyKey(SetMin(K))
     /\ 0 \in K => rtGetMinKey(rtRoot, rtRadix) = PyKey(0)

(***************************************************************************)
(* Properties of the four structures together.                             *)
(***************************************************************************)
IsRaise(result) == result.tag = "raise"

AvlEmpty == avlRoot = None
SkEmpty == skNodes[head].forward[1] = None
LatEmpty == DOMAIN latRoot.pointers = {}
RtEmpty == rtRoot.value = None /\ DOMAIN rtRoot.children = {}

\* C23: on each of the four structures, when it holds no entry (never
\* populated, or a skip list emptied by deletes), getMinKey() and
\* getMaxKey() both raise and return no value.
C23_EmptyMinMaxRaise ==
  /\ AvlEmpty => /\ IsRaise(avlGetMinKey(avlNodes, avlRoot))
                 /\ IsRaise(avlGetMaxKey(avlNodes, avlRoot))
  /\ SkEmpty => /\ IsRaise(skGetMinKey(skNodes))
                /\ IsRaise(skGetMaxKey(skNodes, skLvl))
  /\ LatEmpty => /\ IsRaise(latGetMinKey(latRoot))
                 /\ IsRaise(latGetMaxKey(latRoot))
  /\ RtEmpty => /\ IsRaise(rtGetMinKey(rtRoot, rtRadix))
                /\ IsRaise(rtGetMaxKey(rtRoot, rtRadix))

\* what holds instead: on an empty structure the tree raises AttributeError
\* and the LAT ValueError in both calls; the skip list raises AttributeError
\* in getMinKey and returns the key of the head, -inf, from getMaxKey; the
\* RadixTrie returns None from getMinKey and 0 from getMaxKey
EmptyMinMaxOutcomes ==
  /\ AvlEmpty => /\ avlGetMinKey(avlNodes, avlRoot) = PyRaise("AttributeError")
                 /\ avlGetMaxKey(avlNodes, avlRoot) = PyRaise("AttributeError")
  /\ SkEmpty => /\ skGetMinKey(skNodes) = PyRaise("AttributeError")
                /\ skGetMaxKey(skNodes, skLvl) = PyKey(NegInf)
  /\ LatEmpty => /\ latGetMinKey(latRoot) = PyRaise("ValueError")
                 /\ latGetMaxKey(latRoot) = PyRaise("ValueError")
  /\ RtEmpty => /\ rtGetMinKey(rtRoot, rtRadix) = PyNone
                /\ rtGetMaxKey(rtRoot, rtRadix) = PyKey(0)

\* the skip list has been emptied by a delete and self.lvl is still 1
SkipEmptiedByDelete ==
  SkEmpty /\ skLast.op = "delete" /\ skLvl = 1

\* C24: a call that raises leaves the structure in exactly the state it had
\* before the call.  (Of the calls of the four structures, search,
\* getMinKey and getMaxKey assign nothing and add never raises; the call
\* that can raise after an assignment is the delete of the skip list.)
C24_RaiseLeavesStateUnchanged ==
  [][skLast'.raised
       => skNodes' = skNodes /\ skLvl' = skLvl /\ skMaxLevels' = skMaxLevels]_vars

\* C26: a RadixTrie constructed from non-empty keys without a radix has
\* self.radix = round(sqrt(median(keys))), the nearest integer to the square
\* root of the median of the input keys.
C26_DefaultRadixIsRoundedSqrtOfMedian ==
  (bPc \in {"radixDefault", "radixDefaultNoReturn", "radixDefaultZeroDivision"}
     /\ bKeys # << >>)
    => rtRadix = RoundSqrtOfHalf(TwiceMedian(SortSeq(bKeys, LAMBDA a, b : a < b)))

\* what holds instead: the radix is the integer part of that square root
DefaultRadixIsIntSqrtOfMedian ==
  (bPc \in {"radixDefault", "radixDefaultNoReturn", "radixDefaultZeroDivision"}
     /\ bKeys # << >>)
    => LET m == TwiceMedian(SortSeq(bKeys, LAMBDA a, b : a < b))
       IN 2 * rtRadix * rtRadix <= m /\ m < 2 * (rtRadix + 1) * (rtRadix + 1)

\* a constructor that stays in its first add is reached
DefaultRadixOneHangs == bPc = "radixDefaultNoReturn" /\ rtRadix = 1

\* C31: RadixTrie(keys, values) constructed from non-empty keys without a
\* radix terminates without raising: the radix it derives makes the loop of
\* _break_key finish, so the constructor returns (and then every add and
\* search ends as well).
C31_DefaultRadixConstructorReturns ==
  (bPc \in {"radixDefault", "radixDefaultNoReturn", "radixDefaultZeroDivision"}
     /\ bKeys # << >>)
    => bPc = "radixDefault" /\ rtRadix >= 2

\* what holds instead: the constructor returns exactly when the median of
\* the keys is at least 4, which is when the radix derived is at least 2,
\* and then every key given is found
DefaultRadixReturnsFromMedianFour ==
  (bPc \in {"radixDefault", "radixDefaultNoReturn", "radixDefaultZeroDivision"}
     /\ bKeys # << >>)
    => /\ bPc = "radixDefault"
            <=> TwiceMedian(SortSeq(bKeys, LAMBDA a, b : a < b)) >= 8
       /\ bPc = "radixDefault"
            => \A i \in 1..Len(bKeys) : rtSearch(rtRoot, rtRadix, bKeys[i]) # PyNone

(***************************************************************************)
(* Properties of the Array.                                                *)
(***************************************************************************)
\* the values of the entries whose key lies in start..end, in list order
RECURSIVE ValuesInRange(_, _, _, _)
ValuesInRange(keys, values, start, end) ==
  IF keys = << >> THEN << >>
  ELSE (IF start <= Head(keys) /\ Head(keys) <= end THEN <<Head(values)>>
        ELSE << >>)
       \o ValuesInRange(Tail(keys), Tail(values), start, end)

\* C25: rangeQuery(start, end) with start <= end returns the values, in
\* ascending key order, of exactly the stored keys k with start <= k <= end,
\* whether or not start and end are stored and whether or not they lie
\* beyond the least and the greatest stored key.
C25_ArrayRangeQueryInclusive ==
  (arrLast.op = "rangeQuery" /\ arrLast.start <= arrLast.end)
    => arrLast.result
         = PyList(ValuesInRange(arrKeys, arrValues, arrLast.start, arrLast.end))

\* what holds instead: the answer is right when the stored keys are
\* distinct, start lies above the least stored key and end lies at or below
\* the greatest
ArrayRangeQueryInside ==
  (/\ arrLast.op = "rangeQuery" /\ arrLast.start <= arrLast.end
   /\ \A i \in 1..(Len(arrKeys) - 1) : arrKeys[i] < arrKeys[i + 1]
   /\ arrLast.start > arrKeys[1]
   /\ arrLast.end <= arrKeys[Len(arrKeys)])
    => arrLast.result
         = PyList(ValuesInRange(arrKeys, arrValues, arrLast.start, arrLast.end))

\* C33: on an Array of strictly ascending keys, add(k, v) of a key k not
\* stored, whether below, between or above the stored keys, leaves the
\* keys strictly ascending, keys and values of equal length, every other
\* key with its value, and search(k) = v; add of a stored key changes
\* nothing.
C33_ArrayAddKeepsSortedMap ==
  StrictlyAscending(arrKeys) =>
    \A k \in ArrArgs, v \in Values :
      LET r == arrAddLoop(arrKeys, arrValues, 0, k, v)
          stored == \E i \in 1..Len(arrKeys) : arrKeys[i] = k
      IN IF stored
           THEN r = [keys |-> arrKeys, values |-> arrValues]
           ELSE /\ StrictlyAscending(r.keys)
                /\ Len(r.keys) = Len(r.values)
                /\ Len(r.keys) = Len(arrKeys) + 1
                /\ arrSearch(r.keys, r.values, k) = PyValue(v)
                /\ \A i \in 1..Len(arrKeys) :
                     arrSearch(r.keys, r.values, arrKeys[i]) = PyValue(arrValues[i])

\* what holds instead: that is so for a key below the greatest stored key,
\* and add of a key above every stored key changes nothing
ArrayAddBelowGreatestKey ==
  (arrKeys # << >> /\ StrictlyAscending(arrKeys)) =>
    \A k \in ArrArgs, v \in Values :
      LET r == arrAddLoop(arrKeys, arrValues, 0, k, v)
          stored == \E i \in 1..Len(arrKeys) : arrKeys[i] = k
      IN IF stored \/ k > arrKeys[Len(arrKeys)]
           THEN r = [keys |-> arrKeys, values |-> arrValues]
           ELSE /\ StrictlyAscending(r.keys)
                /\ Len(r.keys) = Len(r.values)
                /\ Len(r.keys) = Len(arrKeys) + 1
                /\ arrSearch(r.keys, r.values, k) = PyValue(v)
                /\ \A i \in 1..Len(arrKeys) :
                     arrSearch(r.keys, r.values, arrKeys[i]) = PyValue(arrValues[i])

\* an add of a key above every stored key has left the Array as it was
ArrayAddAboveIgnored ==
  /\ arrLast.op = "add"
  /\ StrictlyAscending(arrKeys)
  /\ arrLast.start > arrKeys[Len(arrKeys)]

(***************************************************************************)
(* Properties of the constructors.                                         *)
(***************************************************************************)
\* what search(key) returns on the structure that was built
BuiltSearch(key) ==
  CASE bPc = "avl" -> search(avlNodes, avlRoot, key)
    [] bPc = "skip" -> skSearch(skNodes, skLvl, skMaxLevels, key)
    [] bPc = "lat" -> latSearch(latRoot, latRadix, latHeight, key)
    [] bPc = "radix" -> rtSearch(rtRoot, rtRadix, key)

\* C14: for each of binarySearchTree, SkipList, LAT and RadixTrie built from
\* parallel lists keys and values, search(key) gives the value at the first
\* place where key occurs in keys.
C14_BuildFirstWins ==
  bPc \in {"avl", "skip", "lat", "radix"}
    => \A k \in BuildKeys :
         FirstValue(bKeys, bValues, k) # None
           => BuiltSearch(k) = PyValue(FirstValue(bKeys, bValues, k))

\* what the constructors do with a key that occurs more than once: the
\* binarySearchTree and the SkipList keep the first value (the tree's
\* search returning the node that holds it), the LAT keeps the last value,
\* the RadixTrie the least value
BuildDuplicatesResolved ==
  \A k \in BuildKeys :
    FirstValue(bKeys, bValues, k) # None
      => /\ bPc = "avl"
              => /\ search(avlNodes, avlRoot, k) = PyNode(k)
                 /\ avlNodes[k].value = FirstValue(bKeys, bValues, k)
         /\ bPc = "skip"
              => BuiltSearch(k) = PyValue(FirstValue(bKeys, bValues, k))
         /\ bPc = "lat"
              => BuiltSearch(k) = PyValue(LastValue(bKeys, bValues, k))
         /\ bPc = "radix"
              => \E i \in 1..Len(bKeys) :
                   /\ bKeys[i] = k
                   /\ BuiltSearch(k) = PyValue(bValues[i])
                   /\ \A j \in 1..Len(bKeys) :
                        bKeys[j] = k => bValues[i] <= bValues[j]

====
